---- MODULE Spec2Model ----
(***************************************************************************)
(* Model of src/code.py: the Streamlit "image row" script and its core     *)
(* function process_and_combine_images, which resizes the uploaded images  *)
(* to a common height, labels each one and pastes them side by side.       *)
(*                                                                         *)
(* An image file is the record [width, height, valid]: the size PIL        *)
(* reports after Image.open, and whether Image.open can decode it at all.  *)
(* A bitmap is described by its size and by what was drawn on it.          *)
(* Vertical label positions are kept in half pixels (text_y2 = 2 * y),     *)
(* because font_size * 1.5 is a multiple of one half.                      *)
(***************************************************************************)
EXTENDS Integers, Sequences, FiniteSets, TLC

\* ------------------------------------------------------------------ bounds

\* Longest list handed to the script or to the function.
MaxFiles == 6
\* Longest list in the specification that runs the function more than once.
MaxRerunFiles == 2
\* Number of calls made one after the other in that specification.
MaxCalls == 2

\* ------------------------------------------------------- program constants

\* len(uploaded_files) > 5, uploaded_files[:5]
UploadLimit == 5
\* to_letter: 1 <= num <= 5
LetterLimit == 5
\* chr(96 + num)
LetterBase == 96
\* font_size = 18 in the fallback branch
DefaultFontSize == 18
\* draw.text((10, ...))
TextX == 10
\* ... else 25
DefaultYOffset == 25
\* process_and_combine_images(image_files, target_height=400)
DefaultTargetHeight == 400
\* Significand bits of the IEEE double Python's float is.
DoubleBits == 53

\* Heights the slider offers (200..800 in steps of 50); the model uses the
\* default and one that makes font_size odd.
TargetHeights == {250, DefaultTargetHeight}

\* The sizes (width, height) of the decodable files of the model.  A 145 x 232
\* file scales to 156.25 columns at height 250 and to exactly 250 at 400.
Sizes == { <<100, 200>>, <<300, 100>>, <<145, 232>> }

ValidFiles == { [width |-> s[1], height |-> s[2], valid |-> TRUE] : s \in Sizes }

CorruptFile == [width |-> 0, height |-> 0, valid |-> FALSE]

Files == ValidFiles \cup {CorruptFile}

\* All lists of files of length at most n.
FileLists(n) == UNION { [1..k -> Files] : k \in 0..n }

\* ------------------------------------------------------------- arithmetic

RECURSIVE Pow2(_)
Pow2(k) == IF k <= 0 THEN 1 ELSE 2 * Pow2(k - 1)

\* 2^k mod h, by repeated doubling.
RECURSIVE Pow2Mod(_, _)
Pow2Mod(k, h) == IF k <= 0 THEN 1 % h ELSE (2 * Pow2Mod(k - 1, h)) % h

\* The largest e with 2^e <= q, for an integer q >= 1.
RECURSIVE FloorLog2(_)
FloorLog2(q) == IF q < 2 THEN 0 ELSE 1 + FloorLog2(q \div 2)

\* The smallest j >= 1 with h <= H * 2^j, for H < h.
RECURSIVE CeilLog2Ratio(_, _, _)
CeilLog2Ratio(h, H, j) == IF h <= H * Pow2(j) THEN j ELSE CeilLog2Ratio(h, H, j + 1)

\* The binary exponent e of the quotient H / h: 2^e <= H/h < 2^(e+1).
RatioExponent(H, h) ==
    IF H >= h THEN FloorLog2(H \div h) ELSE 0 - CeilLog2Ratio(h, H, 1)

\* The m with 2^m < n <= 2^(m+1), for an integer n >= 1.
RECURSIVE BelowExponent(_, _)
BelowExponent(n, m) == IF Pow2(m + 1) >= n THEN m ELSE BelowExponent(n, m + 1)

(***************************************************************************)
(* int(width * (target_height / height)) in IEEE double arithmetic, for    *)
(* positive integers below 2^31.                                           *)
(*   ratio = target_height / height is the quotient rounded to 53 bits:    *)
(* with e its exponent and k = 52 - e, ratio = q * 2^-k where q is         *)
(* H * 2^k / h rounded to the nearest integer.  R = (H * 2^k) mod h is the *)
(* remainder of that division: the quotient was rounded down when          *)
(* 0 < 2R < h, up when 2R > h, and is exact when R = 0 (a tie 2R = h       *)
(* cannot occur for these magnitudes).                                     *)
(*   width * ratio is then rounded to 53 bits again and int() truncates.   *)
(* When h does not divide w * H the exact value is at least 1/h away from  *)
(* an integer and both roundings are far smaller, so the result is         *)
(* floor(w * H / h).  When h divides w * H, the exact value is the         *)
(* integer n; the product is n - w*R/(h * 2^k) if ratio was rounded down,  *)
(* and it rounds back to n exactly when that deficit is at most half the   *)
(* spacing of the doubles below n, i.e. 4*w*R <= h * 2^(m-e+1); otherwise  *)
(* the product is a double below n and int() gives n - 1.                  *)
(***************************************************************************)
IntOfProduct(w, H, h) ==
    LET n == (w * H) \div h
        e == RatioExponent(H, h)
        k == (DoubleBits - 1) - e
        R == (H * Pow2Mod(k, h)) % h
        m == BelowExponent(n, 0 - 1)
    IN  IF (w * H) % h # 0 THEN n
        ELSE IF R = 0 \/ 2 * R > h THEN n
        ELSE IF 4 * w * R <= h * Pow2(m - e + 1) THEN n
        ELSE n - 1

\* int(target_height * 0.1): the double 0.1 is a little above 1/10, so the
\* product never falls below an integer target_height / 10.
IntOfTenth(H) == H \div 10

\* ---------------------------------------------------------------- strings

Digits == <<"0", "1", "2", "3", "4", "5", "6", "7", "8", "9">>

Lowercase == <<"a", "b", "c", "d", "e", "f", "g", "h", "i", "j", "k", "l", "m",
               "n", "o", "p", "q", "r", "s", "t", "u", "v", "w", "x", "y", "z">>

\* chr(c) for the code points of the lowercase letters ('a' is 97).
chr(c) == Lowercase[c - LetterBase]

\* str(num) for an integer: its decimal digits, "-" first when negative.
RECURSIVE str(_)
str(num) ==
    IF num < 0 THEN "-" \o str(0 - num)
    ELSE IF num < 10 THEN Digits[num + 1]
    ELSE str(num \div 10) \o Digits[(num % 10) + 1]

\* to_letter with the range test one short: 1 <= num < 5.
to_letter_short(num) ==
    IF 1 <= num /\ num < LetterLimit THEN chr(LetterBase + num) ELSE str(num)

to_letter(num) ==
    IF 1 <= num /\ num <= LetterLimit THEN chr(LetterBase + num) ELSE str(num)

\* ------------------------------------------------------------------ state

VARIABLES
    uploaded_files,   \* what st.file_uploader returned, or a direct caller's list
    target_height,    \* the slider's value, or a direct caller's argument
    arial,            \* whether ImageFont.truetype("arial.ttf") succeeds in this call
    caller,           \* who called the function: "none" (not called), "ui" (the
                      \* script, line 120) or "direct"
    pc,               \* where the program is
    image_files,      \* the function's argument
    images,           \* the list of resized, labeled bitmaps
    font,             \* the font object in use
    font_size,
    nobj,             \* font objects created by ImageFont.load_default() so far
    warnings,         \* the st.warning messages of the call
    error,            \* the exception that left the function, if any
    total_width,
    combined_image,   \* the composite: its size and what was pasted where
    current_x,
    i,                \* the index of enumerate(image_files)
    result,           \* what the function returned
    shown,            \* what the script displayed after the call
    history,          \* the calls completed before the current one
    ncalls

vars == << uploaded_files, target_height, arial, caller, pc, image_files, images,
           font, font_size, nobj, warnings, error, total_width, combined_image,
           current_x, i, result, shown, history, ncalls >>

NoFont == [kind |-> "none", id |-> 0]

\* An exception: its type, the file its message shows, and the list index it
\* carries (0: none).
NoError == [type |-> "none", file |-> CorruptFile, position |-> 0]

NoImage == [width |-> 0, height |-> 0, pastes |-> << >>]

NoResult == [kind |-> "pending", image |-> NoImage]

ReturnedNone == [kind |-> "None", image |-> NoImage]

\* The state of a call before its first statement.
Fresh ==
    /\ caller = "none"
    /\ pc = "start"
    /\ image_files = << >>
    /\ images = << >>
    /\ font = NoFont
    /\ font_size = 0
    /\ nobj = 0
    /\ warnings = << >>
    /\ error = NoError
    /\ total_width = 0
    /\ combined_image = NoImage
    /\ current_x = 0
    /\ i = 0
    /\ result = NoResult
    /\ shown = { }

InitWith(lists) ==
    /\ uploaded_files \in lists
    /\ target_height \in TargetHeights
    /\ arial \in BOOLEAN
    /\ Fresh
    /\ history = << >>
    /\ ncalls = 1

Init == InitWith(FileLists(MaxFiles))

InitRerun == InitWith(FileLists(MaxRerunFiles))

\* ------------------------------------------------------- the script's call

\* Lines 100-120: with files uploaded, the script keeps at most five of them
\* (and reports the excess) and calls the function with the slider's height.
ScriptCall ==
    /\ pc = "start"
    /\ uploaded_files # << >>
    /\ image_files' = IF Len(uploaded_files) > UploadLimit
                      THEN SubSeq(uploaded_files, 1, UploadLimit)
                      ELSE uploaded_files
    /\ shown' = IF Len(uploaded_files) > UploadLimit THEN {"limit_error"} ELSE { }
    /\ caller' = "ui"
    /\ pc' = "entry"
    /\ UNCHANGED << uploaded_files, target_height, arial, images, font, font_size,
                    nobj, warnings, error, total_width, combined_image, current_x,
                    i, result, history, ncalls >>

\* Lines 100, 142-143: with nothing uploaded the script only asks for files.
ScriptIdle ==
    /\ pc = "start"
    /\ uploaded_files = << >>
    /\ shown' = {"upload_prompt"}
    /\ pc' = "done"
    /\ UNCHANGED << uploaded_files, target_height, arial, caller, image_files, images, font,
                    font_size, nobj, warnings, error, total_width, combined_image,
                    current_x, i, result, history, ncalls >>

\* Line 15: the function called with a list as it is, by any other caller.
DirectCall ==
    /\ pc = "start"
    /\ image_files' = uploaded_files
    /\ caller' = "direct"
    /\ pc' = "entry"
    /\ UNCHANGED << uploaded_files, target_height, arial, images, font, font_size,
                    nobj, warnings, error, total_width, combined_image, current_x,
                    i, result, shown, history, ncalls >>

\* ------------------------------------------- process_and_combine_images

\* EmptyCheck with the font looked up before the test for an empty list.
EmptyCheckAfterFont ==
    /\ pc = "entry"
    /\ IF arial
       THEN UNCHANGED warnings
       ELSE warnings' = Append(warnings,
                               "Arial font not found. Using default font for labels.")
    /\ IF image_files = << >>
       THEN /\ result' = ReturnedNone
            /\ pc' = "returned"
            /\ UNCHANGED images
       ELSE /\ images' = << >>
            /\ pc' = "font"
            /\ UNCHANGED result
    /\ UNCHANGED << uploaded_files, target_height, arial, caller, image_files, font,
                    font_size, nobj, error, total_width, combined_image,
                    current_x, i, shown, history, ncalls >>

\* EmptyCheck without images = []: the list outlives the call, as a module
\* level list or a mutable default argument would.
EmptyCheckKeepImages ==
    /\ pc = "entry"
    /\ IF image_files = << >>
       THEN /\ result' = ReturnedNone
            /\ pc' = "returned"
       ELSE /\ pc' = "font"
            /\ UNCHANGED result
    /\ UNCHANGED << uploaded_files, target_height, arial, caller, image_files, images,
                    font, font_size, nobj, warnings, error, total_width,
                    combined_image, current_x, i, shown, history, ncalls >>

\* Lines 24-27: an empty list returns None at once; otherwise images = [].
EmptyCheck ==
    /\ pc = "entry"
    /\ IF image_files = << >>
       THEN /\ result' = ReturnedNone
            /\ pc' = "returned"
            /\ UNCHANGED images
       ELSE /\ images' = << >>
            /\ pc' = "font"
            /\ UNCHANGED result
    /\ UNCHANGED << uploaded_files, target_height, arial, caller, image_files, font,
                    font_size, nobj, warnings, error, total_width, combined_image,
                    current_x, i, shown, history, ncalls >>

\* FontSetup without the except branch: the IOError leaves the function.
FontSetupRaise ==
    /\ pc = "font"
    /\ IF arial
       THEN /\ font' = [kind |-> "truetype", id |-> 0]
            /\ font_size' = IntOfTenth(target_height)
            /\ pc' = "loop"
            /\ UNCHANGED error
       ELSE /\ error' = [type |-> "OSError", file |-> CorruptFile, position |-> 0]
            /\ pc' = "raised"
            /\ UNCHANGED << font, font_size >>
    /\ i' = 0
    /\ UNCHANGED << uploaded_files, target_height, arial, caller, image_files, images,
                    nobj, warnings, total_width, combined_image, current_x, result,
                    shown, history, ncalls >>

\* Lines 30-38: Arial at a tenth of the height, or on IOError one warning,
\* the default font (a new object) and the fixed size 18.
FontSetup ==
    /\ pc = "font"
    /\ IF arial
       THEN /\ font' = [kind |-> "truetype", id |-> 0]
            /\ font_size' = IntOfTenth(target_height)
            /\ UNCHANGED << warnings, nobj >>
       ELSE /\ warnings' = Append(warnings,
                                  "Arial font not found. Using default font for labels.")
            /\ font' = [kind |-> "default", id |-> nobj + 1]
            /\ nobj' = nobj + 1
            /\ font_size' = DefaultFontSize
    /\ i' = 0
    /\ pc' = "loop"
    /\ UNCHANGED << uploaded_files, target_height, arial, caller, image_files, images,
                    error, total_width, combined_image, current_x, result, shown,
                    history, ncalls >>

\* Line 59: font != ImageFont.load_default().  load_default() builds a new
\* font object on every call and the font classes define no __eq__, so the
\* comparison is by identity, against the object created just now.
FontIsNotDefault(f, fresh) == f # fresh

\* Line 59, in half pixels.
TextYOffset2(f, fresh, size) ==
    IF FontIsNotDefault(f, fresh) THEN 3 * size ELSE 2 * DefaultYOffset

\* Lines 46-48: the new width.
NewWidth(width, height, H) == IntOfProduct(width, H, height)

\* Resize scaling the width only: img.resize((new_width, height)).
ResizeKeepHeight(file, H) ==
    [width |-> NewWidth(file.width, file.height, H), height |-> file.height]

\* Line 51: img.resize((new_width, target_height)).
Resize(file, H) ==
    [width |-> NewWidth(file.width, file.height, H), height |-> H]

\* Lines 54-64: the label drawn on the resized bitmap.
Labeled(img, index, f, fresh, size, H) ==
    [width |-> img.width, height |-> img.height,
     label |-> to_letter(index + 1),
     text_x |-> TextX,
     text_y2 |-> 2 * H - TextYOffset2(f, fresh, size),
     font_kind |-> f.kind]

\* Line 43: Image.open raises on a file it cannot identify; the message shows
\* the file object and nothing else.
DecodeError(file) ==
    [type |-> "UnidentifiedImageError", file |-> file, position |-> 0]

\* ProcessImage with the decoding error caught and None returned.
ProcessImageReturnNone ==
    /\ pc = "loop"
    /\ i < Len(image_files)
    /\ LET file == image_files[i + 1]
           fresh == [kind |-> "default", id |-> nobj + 1]
       IN  IF ~file.valid
           THEN /\ result' = ReturnedNone
                /\ pc' = "returned"
                /\ UNCHANGED << images, nobj, i >>
           ELSE /\ images' = Append(images,
                      Labeled(Resize(file, target_height), i, font, fresh,
                              font_size, target_height))
                /\ nobj' = nobj + 1
                /\ i' = i + 1
                /\ UNCHANGED << result, pc >>
    /\ UNCHANGED << uploaded_files, target_height, arial, caller, image_files, font,
                    font_size, warnings, error, total_width, combined_image,
                    current_x, shown, history, ncalls >>

\* ProcessImage with the decoding error caught and the file skipped.
ProcessImageSkip ==
    /\ pc = "loop"
    /\ i < Len(image_files)
    /\ LET file == image_files[i + 1]
           fresh == [kind |-> "default", id |-> nobj + 1]
       IN  IF ~file.valid
           THEN /\ i' = i + 1
                /\ UNCHANGED << images, nobj >>
           ELSE /\ images' = Append(images,
                      Labeled(Resize(file, target_height), i, font, fresh,
                              font_size, target_height))
                /\ nobj' = nobj + 1
                /\ i' = i + 1
    /\ UNCHANGED << uploaded_files, target_height, arial, caller, pc, image_files,
                    font, font_size, warnings, error, total_width, combined_image,
                    current_x, result, shown, history, ncalls >>

\* Lines 41-66: one iteration of the loop.
ProcessImage ==
    /\ pc = "loop"
    /\ i < Len(image_files)
    /\ LET file == image_files[i + 1]
           fresh == [kind |-> "default", id |-> nobj + 1]
       IN  IF ~file.valid
           THEN /\ error' = DecodeError(file)
                /\ pc' = "raised"
                /\ UNCHANGED << images, nobj, i >>
           ELSE /\ images' = Append(images,
                      Labeled(Resize(file, target_height), i, font, fresh,
                              font_size, target_height))
                /\ nobj' = nobj + 1
                /\ i' = i + 1
                /\ UNCHANGED << error, pc >>
    /\ UNCHANGED << uploaded_files, target_height, arial, caller, image_files, font,
                    font_size, warnings, total_width, combined_image, current_x,
                    result, shown, history, ncalls >>

RECURSIVE SumWidths(_)
SumWidths(imgs) ==
    IF imgs = << >> THEN 0 ELSE Head(imgs).width + SumWidths(Tail(imgs))

\* Lines 69-72: the white composite, still empty.
Combine ==
    /\ pc = "loop"
    /\ i >= Len(image_files)
    /\ total_width' = SumWidths(images)
    /\ combined_image' = [width |-> SumWidths(images), height |-> target_height,
                          pastes |-> << >>]
    /\ current_x' = 0
    /\ pc' = "paste"
    /\ UNCHANGED << uploaded_files, target_height, arial, caller, image_files, images,
                    font, font_size, nobj, warnings, error, i, result, shown,
                    history, ncalls >>

\* Paste advancing by the common height instead of the image's width.
PasteAdvanceByHeight ==
    /\ pc = "paste"
    /\ Len(combined_image.pastes) < Len(images)
    /\ LET img == images[Len(combined_image.pastes) + 1]
       IN  /\ combined_image' =
                [combined_image EXCEPT
                    !.pastes = Append(@, [x |-> current_x, image |-> img])]
           /\ current_x' = current_x + img.height
    /\ UNCHANGED << uploaded_files, target_height, arial, caller, pc, image_files,
                    images, font, font_size, nobj, warnings, error, total_width, i,
                    result, shown, history, ncalls >>

\* Lines 73-75: one iteration of the paste loop.
Paste ==
    /\ pc = "paste"
    /\ Len(combined_image.pastes) < Len(images)
    /\ LET img == images[Len(combined_image.pastes) + 1]
       IN  /\ combined_image' =
                [combined_image EXCEPT
                    !.pastes = Append(@, [x |-> current_x, image |-> img])]
           /\ current_x' = current_x + img.width
    /\ UNCHANGED << uploaded_files, target_height, arial, caller, pc, image_files,
                    images, font, font_size, nobj, warnings, error, total_width, i,
                    result, shown, history, ncalls >>

\* Lines 78-80: the composite saved as PNG, which keeps every pixel.
Save ==
    /\ pc = "paste"
    /\ Len(combined_image.pastes) >= Len(images)
    /\ result' = [kind |-> "bytes", image |-> combined_image]
    /\ pc' = "returned"
    /\ UNCHANGED << uploaded_files, target_height, arial, caller, image_files, images,
                    font, font_size, nobj, warnings, error, total_width,
                    combined_image, current_x, i, shown, history, ncalls >>

\* ------------------------------------------------------- after the call

\* Lines 124-134: the preview and the download button, only for bytes.
Display ==
    /\ pc = "returned"
    /\ caller = "ui"
    /\ shown' = IF result.kind = "bytes"
                THEN shown \cup {"preview", "download"}
                ELSE shown
    /\ pc' = "done"
    /\ UNCHANGED << uploaded_files, target_height, arial, caller, image_files, images,
                    font, font_size, nobj, warnings, error, total_width,
                    combined_image, current_x, i, result, history, ncalls >>

Finished ==
    \/ pc = "done"
    \/ pc = "raised"
    \/ pc = "returned" /\ caller = "direct"

\* The same files processed again (Streamlit runs the script again on every
\* interaction; a direct caller calls again).  Whether Arial can be loaded is
\* read anew.  The locals of the new call are unbound until assigned.
\* history keeps the arguments and the outcome of each call of the function.
Rerun ==
    /\ Finished
    /\ ncalls < MaxCalls
    /\ history' = IF caller = "none" THEN history
                  ELSE Append(history,
                         [image_files |-> image_files, target_height |-> target_height,
                          arial |-> arial, result |-> result, error |-> error])
    /\ ncalls' = ncalls + 1
    /\ arial' \in BOOLEAN
    /\ target_height' \in TargetHeights
    /\ caller' = "none"
    /\ pc' = "start"
    /\ image_files' = << >>
    /\ font' = NoFont
    /\ font_size' = 0
    /\ nobj' = 0
    /\ warnings' = << >>
    /\ error' = NoError
    /\ total_width' = 0
    /\ combined_image' = NoImage
    /\ current_x' = 0
    /\ i' = 0
    /\ result' = NoResult
    /\ shown' = { }
    /\ UNCHANGED << uploaded_files, images >>

Call == ScriptCall \/ ScriptIdle \/ DirectCall

Function == EmptyCheck \/ FontSetup \/ ProcessImage \/ Combine \/ Paste \/ Save

Next == Call \/ Function \/ Display

NextRerun == Next \/ Rerun

Spec == Init /\ [][Next]_vars

SpecRerun == InitRerun /\ [][NextRerun]_vars

\* ----------------------------------------------------------- properties

AllValid(files) == \A p \in DOMAIN files : files[p].valid

\* The first position of files that does not decode (Len + 1: none).
FirstBad(files) ==
    IF AllValid(files) THEN Len(files) + 1
    ELSE CHOOSE p \in DOMAIN files :
            /\ ~files[p].valid
            /\ \A q \in 1..(p - 1) : files[q].valid

\* The call has passed line 27 and the locals hold this call's values.
InBody == pc \in {"font", "loop", "paste", "raised"} \/ (pc \in {"returned", "done"} /\ image_files # << >>)

\* original * targetHeight / originalHeight rounded to the nearest integer.
RoundedWidth(file, H) == (2 * file.width * H + file.height) \div (2 * file.height)

RECURSIVE SumRounded(_, _)
SumRounded(files, H) ==
    IF files = << >> THEN 0
    ELSE RoundedWidth(Head(files), H) + SumRounded(Tail(files), H)

\* C1: the width of the returned composite is the sum over the inputs of
\* round(originalWidth * targetHeight / originalHeight).
C1_WidthIsSumOfRounded ==
    result.kind = "bytes" =>
        result.image.width = SumRounded(image_files, target_height)

\* C2: every resized image of the batch and the composite are exactly
\* targetHeight high, whatever the heights of the inputs.
C2_HeightIsTargetHeight ==
    /\ InBody => \A p \in DOMAIN images : images[p].height = target_height
    /\ result.kind = "bytes" =>
          /\ result.image.height = target_height
          /\ \A p \in DOMAIN result.image.pastes :
                result.image.pastes[p].image.height = target_height

C2_Witness ==
    /\ result.kind = "bytes"
    /\ Len(image_files) = UploadLimit
    /\ \E p, q \in DOMAIN image_files :
          /\ image_files[p].height # image_files[q].height
          /\ image_files[p].height # target_height
          /\ image_files[q].height # target_height

\* C3: the image at input position p is pasted at the sum of the widths of
\* the images before it; the column ranges follow one another in input order
\* without overlap or gap and end at the composite's width.
C3_PastedLeftToRight ==
    result.kind = "bytes" =>
        LET ps == result.image.pastes
            right(p) == ps[p].x + ps[p].image.width
        IN  /\ Len(ps) = Len(image_files)
            /\ \A p \in DOMAIN ps :
                  /\ ps[p].image = images[p]
                  /\ ps[p].image.width =
                        NewWidth(image_files[p].width, image_files[p].height,
                                 target_height)
                  /\ ps[p].x = SumWidths(SubSeq(images, 1, p - 1))
                  /\ p = 1 => ps[p].x = 0
                  /\ p > 1 => ps[p].x = right(p - 1)
                  /\ p = Len(ps) => right(p) = result.image.width
            /\ \A p, q \in DOMAIN ps :
                  p < q => right(p) <= ps[q].x

C3_Witness ==
    /\ result.kind = "bytes"
    /\ Len(result.image.pastes) = 3
    /\ result.image.pastes[1].x = 0
    /\ result.image.pastes[2].x = 200
    /\ result.image.pastes[3].x = 1400
    /\ result.image.width > 1400

\* The label the claim gives position p.
ExpectedLabel(p) ==
    IF p <= 5 THEN << "a", "b", "c", "d", "e" >>[p]
    ELSE << "6", "7", "8", "9" >>[p - 5]

\* C4: the label of the image at 1-indexed position p is "a".."e" for
\* p = 1..5 and the decimal string of p beyond, by position in the list.
C4_LabelByPosition ==
    /\ InBody => \A p \in DOMAIN images : images[p].label = ExpectedLabel(p)
    /\ result.kind = "bytes" =>
          \A p \in DOMAIN result.image.pastes :
              result.image.pastes[p].image.label = ExpectedLabel(p)

C4_Witness ==
    /\ result.kind = "bytes"
    /\ Len(result.image.pastes) = 6
    /\ result.image.pastes[1].image.label = "a"
    /\ result.image.pastes[5].image.label = "e"
    /\ result.image.pastes[6].image.label = "6"

C6_AllOrNothing ==
    /\ (caller # "none" /\ ~AllValid(image_files)) =>
          /\ result.kind # "bytes"
          /\ shown \cap {"preview", "download"} = { }
    /\ result.kind = "bytes" =>
          /\ AllValid(image_files)
          /\ Len(images) = Len(image_files)
          /\ Len(result.image.pastes) = Len(image_files)
    /\ shown \cap {"preview", "download"} # { } => result.kind = "bytes"

C6_Witness ==
    /\ pc = "raised"
    /\ caller = "ui"
    /\ Len(image_files) = 5
    /\ FirstBad(image_files) = 5
    /\ Len(images) = 4
    /\ result.kind # "bytes"
    /\ shown = { }

\* C7: called with an empty list the function returns None, raises nothing,
\* and has looked up no font, decoded nothing and allocated no bitmap.
C7_EmptyReturnsNone ==
    (caller = "direct" /\ image_files = << >> /\ pc # "entry") =>
        /\ pc = "returned"
        /\ result = ReturnedNone
        /\ error = NoError
        /\ warnings = << >>
        /\ font = NoFont
        /\ nobj = 0
        /\ images = << >>
        /\ combined_image = NoImage

C7_Witness ==
    /\ caller = "direct"
    /\ image_files = << >>
    /\ pc = "returned"
    /\ result = ReturnedNone
    /\ ~arial

\* What a finished call produced.
Outcome == [result |-> result, error |-> error]

\* C8 as stated: two calls with the same images and targetHeight produce the
\* same output.
C8_SameInputsSameOutput ==
    (Finished /\ caller # "none") =>
        \A c \in DOMAIN history :
            (/\ history[c].image_files = image_files
             /\ history[c].target_height = target_height)
            => [result |-> history[c].result, error |-> history[c].error] = Outcome

\* C8 as amended: two calls with the same images, the same targetHeight and
\* the same outcome of the font lookup produce the same output.
C8_SameInputsAndFontSameOutput ==
    (Finished /\ caller # "none") =>
        \A c \in DOMAIN history :
            (/\ history[c].image_files = image_files
             /\ history[c].target_height = target_height
             /\ history[c].arial = arial)
            => [result |-> history[c].result, error |-> history[c].error] = Outcome

C8_Witness ==
    /\ Finished
    /\ caller # "none"
    /\ Len(history) = 1
    /\ history[1].image_files = image_files
    /\ history[1].target_height = target_height
    /\ history[1].arial = arial
    /\ Len(image_files) = 2
    /\ result.kind = "bytes"
    /\ history[1].result = result

\* C9: a failed font lookup never fails the request: the default font is
\* used, a composite is still returned for decodable non-empty input, and the
\* warning is surfaced once, exactly when the fallback was taken.
C9_FontFallbackWarnsOnce ==
    /\ (InBody /\ pc # "font") =>
          /\ Len(warnings) = (IF arial THEN 0 ELSE 1)
          /\ font.kind = (IF arial THEN "truetype" ELSE "default")
    /\ pc = "raised" => ~AllValid(image_files)
    /\ (pc \in {"returned", "done"} /\ image_files # << >>) =>
          /\ result.kind = "bytes"
          /\ \A p \in DOMAIN result.image.pastes :
                result.image.pastes[p].image.font_kind =
                    (IF arial THEN "truetype" ELSE "default")

C9_Witness ==
    /\ ~arial
    /\ pc = "done"
    /\ result.kind = "bytes"
    /\ Len(warnings) = 1
    /\ font.kind = "default"

\* C10: every label is drawn at x = 10 and at y = targetHeight - 1.5 * fontSize
\* with the system font, at y = targetHeight - 25 with the fallback font
\* (in half pixels).
C10_LabelPosition ==
    InBody =>
        \A p \in DOMAIN images :
            /\ images[p].text_x = 10
            /\ images[p].text_y2 =
                  (IF images[p].font_kind = "truetype"
                   THEN 2 * target_height - 3 * font_size
                   ELSE 2 * (target_height - 25))

====
